---- MODULE Spec2Model ----
(***************************************************************************)
(* The render-result caches of ga_ows, the GetMap request that uses them,  *)
(* and the palettes and SLD expressions of ga_ows/rendering.               *)
(*                                                                         *)
(*   Cache     ga_ows/models/wms.py, a mongoengine document class:         *)
(*             add / retrieve / clean / clear, and the admin clear view.   *)
(*   WMSCache  ga_ows/views/wms.py, a pymongo collection wrapper:          *)
(*             save / locate / flush / flush_lru.                          *)
(*                                                                         *)
(* The two caches live in different MongoDB collections and no operation   *)
(* touches both, so a behaviour exercises one of them (backend).           *)
(*                                                                         *)
(* Spec         every cache handler is one step.                            *)
(* SpecConc     Cache.retrieve takes two steps, its query and its write,   *)
(*              and the other Cache operations run in between.             *)
(* SpecOws      puts and gets whose store call may fail.                   *)
(* SpecGetMap   GetMap requests over the WMSCache.                         *)
(* SpecPalette  a band or palette is built (the initial state) and         *)
(*              evaluated once; backend is "Rendering", no store is used.  *)
(* SpecSld      the same for Recode, And, Or and Btw.                      *)
(* SpecExpr     the same for Like, PA, the arithmetic nodes, Rule and      *)
(*              Interpolate.                                               *)
(*                                                                         *)
(* `last` is the record of the step just taken; in the rendering           *)
(* specifications it starts as the record of what was built.               *)
(*                                                                         *)
(* Library calls are modelled by what the call says: Document.save()       *)
(* writes the whole document under its _id (inserting it when the          *)
(* collection holds none with that _id), QuerySet.first() without an       *)
(* order_by returns any matching document, order_by(..).limit(n).delete()  *)
(* deletes the n first documents of that order, collection.save() upserts  *)
(* by _id, find_and_modify is one atomic operation.                        *)
(***************************************************************************)
EXTENDS Integers, Sequences, FiniteSets, TLC

VARIABLES backend, now, docs, nextId, inflight, coll, last

vars == <<backend, now, docs, nextId, inflight, coll, last>>

(* ------------------------------ bounds --------------------------------- *)

(* The clock runs from 0 to MaxTime. *)
MaxTime == 1
(* Cache.add is called at most MaxId times. *)
MaxId == 2
(* The caps handed to clean and flush_lru range over 0..MaxLimit. *)
MaxLimit == 2
(* The WMSCache collection holds at most MaxColl documents. *)
MaxColl == 2

Apps == {"app1", "app2"}
Keys == {"k1", "k2"}
Items == {"A", "B"}

(* Every Cache.add stores a payload of its own: the n-th add stores Payloads[n]. *)
Payloads == <<"A", "B", "C", "D">>

(* What a lookup hands back when there is no payload (Python None). *)
Absent == "None"

(* An optional value: {} is None, {v} is the value v. *)
None == {}

Min(a, b) == IF a <= b THEN a ELSE b

(* ------------------------- Cache (mongoengine) -------------------------- *)

(* Mutation of ExpiresLt: `<=` in place of `<`. *)
ExpiresLe(d, t) == \E e \in d.expires : e <= t

(* expires__lt=now, and `r.expires and r.expires < now`: a document without *)
(* an expiration never matches.                                             *)
ExpiresLt(d, t) == \E e \in d.expires : e < t

(* Mutation of Matching: the query by cache_key alone. *)
MatchingKeyOnly(app, key) == {d \in docs : d.cache_key = key}

(* cls.objects(application=application, cache_key=cache_key) *)
Matching(app, key) == {d \in docs : d.application = app /\ d.cache_key = key}

(* `if limit`: None and 0 are both false. *)
Truthy(limit) == \E n \in limit : n # 0

(* Mutation of OldestFirst: order_by('-access'). *)
NewestFirst(S, n) ==
    {T \in SUBSET S : /\ Cardinality(T) = n
                      /\ \A x \in T, y \in S \ T : x.access >= y.access}

(* order_by('+access').limit(n): the n first documents by ascending access; *)
(* documents of equal access come in any order, so every such prefix.       *)
OldestFirst(S, n) ==
    {T \in SUBSET S : /\ Cardinality(T) = n
                      /\ \A x \in T, y \in S \ T : x.access <= y.access}

Ids(S) == {d.id : d \in S}

(* What another operation means to a retrieve that has read its document   *)
(* and not yet written: it may have deleted that document.                 *)
Disturbed(gone, cause) ==
    {[f EXCEPT !.deleted = IF f.deleted = "" /\ f.r.id \in gone
                           THEN cause ELSE f.deleted] : f \in inflight}

(* The expirations a caller of add passes: none, or the present instant,   *)
(* which has passed as soon as the clock moves.                            *)
Expirations == {None, {now}}

Add(app, item, key, expires) ==
    /\ backend = "Cache"
    /\ nextId <= MaxId
    /\ docs' = docs \cup {[id |-> nextId, application |-> app, item |-> item,
                           cache_key |-> key, when |-> now, access |-> now,
                           expires |-> expires]}
    /\ nextId' = nextId + 1
    /\ inflight' = Disturbed({}, "")
    /\ last' = [op |-> "add", application |-> app, cache_key |-> key,
                item |-> item, expires |-> expires]
    /\ UNCHANGED <<backend, now, coll>>

(* The expired branch or the touch branch, line 20. *)
Path(r, t) == IF ExpiresLt(r, t) THEN "expire" ELSE "touch"

(* r.delete() *)
Deleted(r) == {d \in docs : d.id # r.id}

(* r.save(): the document is written under its id. *)
Saved(r) == {d \in docs : d.id # r.id} \cup {r}

(* Mutation of Touched: the creation timestamp is reset as well. *)
TouchedAll(r, t) == [r EXCEPT !.access = t, !.when = t]

(* retrieve, line 24: r.access = now *)
Touched(r, t) == [r EXCEPT !.access = t]

(* What retrieve returns on each path: the miss returns None, the expired  *)
(* branch sets r = None and then evaluates r.item, the touch branch        *)
(* returns r.item.                                                         *)
Returned(path, r) ==
    CASE path = "miss" -> Absent
      [] path = "expire" -> "AttributeError"
      [] path = "touch" -> r.item

RetrieveRecord(app, key, path, result, deleted) ==
    [op |-> "retrieve", application |-> app, cache_key |-> key, path |-> path,
     result |-> result, deleted |-> deleted]

(* retrieve, from its query to its return. *)
Retrieve(app, key) ==
    /\ backend = "Cache"
    /\ inflight = {}
    /\ IF Matching(app, key) = {}
       THEN /\ docs' = docs
            /\ last' = RetrieveRecord(app, key, "miss", Returned("miss", None), "")
       ELSE \E r \in Matching(app, key) :
              /\ docs' = IF Path(r, now) = "expire"
                         THEN Deleted(r) ELSE Saved(Touched(r, now))
              /\ last' = RetrieveRecord(app, key, Path(r, now),
                                        Returned(Path(r, now), r), "")
    /\ UNCHANGED <<backend, now, nextId, inflight, coll>>

(* retrieve, lines 17-20: the query and the clock; a miss returns at once. *)
RetrieveFind(app, key) ==
    /\ backend = "Cache"
    /\ inflight = {}
    /\ IF Matching(app, key) = {}
       THEN /\ last' = RetrieveRecord(app, key, "miss", Returned("miss", None), "")
            /\ UNCHANGED inflight
       ELSE /\ \E r \in Matching(app, key) :
                 inflight' = {[application |-> app, cache_key |-> key, r |-> r,
                               t |-> now, path |-> Path(r, now), deleted |-> ""]}
            /\ last' = [op |-> "find"]
    /\ UNCHANGED <<backend, now, docs, nextId, coll>>

(* retrieve, lines 21-22 and 26: r.delete(); r = None; return r.item *)
RetrieveExpire ==
    /\ \E f \in inflight :
         /\ f.path = "expire"
         /\ docs' = Deleted(f.r)
         /\ last' = RetrieveRecord(f.application, f.cache_key, f.path,
                                   Returned(f.path, f.r), f.deleted)
    /\ inflight' = {}
    /\ UNCHANGED <<backend, now, nextId, coll>>

(* retrieve, lines 24-26: r.access = now; r.save(); return r.item *)
RetrieveTouch ==
    /\ \E f \in inflight :
         /\ f.path = "touch"
         /\ docs' = Saved(Touched(f.r, f.t))
         /\ last' = RetrieveRecord(f.application, f.cache_key, f.path,
                                   Returned(f.path, f.r), f.deleted)
    /\ inflight' = {}
    /\ UNCHANGED <<backend, now, nextId, coll>>

Limits == {None} \cup {{n} : n \in 0..MaxLimit}

Clean(limit) ==
    /\ backend = "Cache"
    /\ LET swept == {d \in docs : ExpiresLt(d, now)}
           mid   == docs \ swept
       IN  \E evicted \in (IF Truthy(limit) /\ \E n \in limit : Cardinality(mid) > n
                           THEN OldestFirst(mid, CHOOSE n \in limit : TRUE)
                           ELSE {{}}) :
             /\ docs' = mid \ evicted
             /\ inflight' = {[f EXCEPT !.deleted = IF f.deleted # "" THEN f.deleted
                                ELSE IF f.r.id \in Ids(swept) THEN "sweep"
                                ELSE IF f.r.id \in Ids(evicted) THEN "evict"
                                ELSE ""] : f \in inflight}
             /\ last' = [op |-> "clean", limit |-> limit,
                         swept |-> Cardinality(swept),
                         evicted |-> Cardinality(evicted)]
    /\ UNCHANGED <<backend, now, nextId, coll>>

(* The equality criteria **q of clear: field name -> wanted value. *)
Criteria == UNION {[F -> Keys] : F \in SUBSET {"cache_key"}}

(* Mutation of Satisfies: the criteria are not looked at. *)
SatisfiesAny(d, q) == TRUE

(* objects(application=application, **q): every criterion is an equality. *)
Satisfies(d, q) == \A f \in DOMAIN q : d[f] = q[f]

Clear(app, q) ==
    /\ backend = "Cache"
    /\ LET gone == {d \in docs : d.application = app /\ Satisfies(d, q)}
       IN  /\ docs' = docs \ gone
           /\ inflight' = Disturbed(Ids(gone), "clear")
           /\ last' = [op |-> "clear", application |-> app, q |-> q,
                       removed |-> Cardinality(gone)]
    /\ UNCHANGED <<backend, now, nextId, coll>>

(* WMSCacheClearView.post *)
AdminClear(app) ==
    /\ backend = "Cache"
    /\ LET gone == {d \in docs : d.application = app}
       IN  /\ docs' = docs \ gone
           /\ inflight' = Disturbed(Ids(gone), "clear")
           /\ last' = [op |-> "admin_clear", application |-> app,
                       removed |-> Cardinality(gone)]
    /\ UNCHANGED <<backend, now, nextId, coll>>

(* -------------------------- WMSCache (pymongo) -------------------------- *)

(* A keyword parameter is a pair <<name, value>>. A name is written as its  *)
(* rank among the parameter names in string order (1 "bbox", 2 "layers"),   *)
(* so that comparing two pairs is Python's comparison of the two tuples.    *)
(* One value per parameter is enough to tell the documents apart: the       *)
(* dicts are {bbox}, {layers} and {bbox, layers}, the last in two orders.   *)
ParamNames == {1, 2}
ParamValues == {1}

(* keys.items(): the pairs of the dict, in the order the dict yields them,  *)
(* which is no order the caller controls. KwArgs are all those orders.      *)
KwArgs ==
    {kw \in UNION {[1..n -> ParamNames \X ParamValues] : n \in 1..2} :
        \A i, j \in DOMAIN kw : kw[i][1] = kw[j][1] => i = j}

(* The dict itself: its set of pairs. *)
Dict(kw) == {kw[i] : i \in DOMAIN kw}

(* Python's order on tuples. *)
PairLe(p, q) == p[1] < q[1] \/ (p[1] = q[1] /\ p[2] <= q[2])

(* sorted(keys.items()) *)
Sorted(kw) ==
    CHOOSE s \in [DOMAIN kw -> Dict(kw)] :
        /\ Dict(s) = Dict(kw)
        /\ \A i, j \in DOMAIN s : i < j => PairLe(s[i], s[j])

(* hashlib md5 hexdigest of str(..): a digest is written as the text it    *)
(* digests; collisions of md5 are not modelled.                            *)
HexDigest(text) == [md5 |-> text]

(* Mutation of DocId: the items are digested in the order they come. *)
DocIdUnsorted(kw) == HexDigest(kw)

(* save lines 62-64, locate lines 77-79 *)
DocId(kw) == HexDigest(Sorted(kw))

Save(item, kw) ==
    /\ backend = "WMSCache"
    /\ LET docid == DocId(kw)
           others == {d \in coll : d.id # docid}
       IN  /\ Cardinality(others) < MaxColl
           /\ coll' = others \cup {[id |-> docid, item |-> item, keys |-> Dict(kw),
                                    creation_time |-> now, used_time |-> now]}
           /\ last' = [op |-> "save", docid |-> docid, item |-> item,
                       inorder |-> (kw = Sorted(kw))]
    /\ UNCHANGED <<backend, now, docs, nextId, inflight>>

(* find_and_modify({_id: docid}, {$set: {_used_time: now}}) returns the     *)
(* document it found, or None.                                              *)
Locate(kw) ==
    /\ backend = "WMSCache"
    /\ LET docid == DocId(kw)
           found == {d \in coll : d.id = docid}
       IN  /\ coll' = (coll \ found) \cup {[d EXCEPT !.used_time = now] : d \in found}
           /\ \E result \in (IF found = {} THEN {Absent} ELSE {d.item : d \in found}) :
                last' = [op |-> "locate", docid |-> docid, result |-> result,
                         inorder |-> (kw = Sorted(kw))]
    /\ UNCHANGED <<backend, now, docs, nextId, inflight>>

(* collection.drop() *)
Flush ==
    /\ backend = "WMSCache"
    /\ coll' = {}
    /\ last' = [op |-> "flush"]
    /\ UNCHANGED <<backend, now, docs, nextId, inflight>>

(* find().sort(('_used_time', DESCENDING)): the documents, latest use first. *)
SortedByUsedTime(S) ==
    CHOOSE s \in [1..Cardinality(S) -> S] :
        /\ {s[i] : i \in DOMAIN s} = S
        /\ \A i, j \in DOMAIN s : i < j => s[i].used_time >= s[j].used_time

FlushLru(count) ==
    /\ backend = "WMSCache"
    /\ LET total == Cardinality(coll)
       IN  /\ IF total > count
              THEN LET key == SortedByUsedTime(coll)[count + 1].used_time
                   IN  coll' = {d \in coll : ~(d.used_time <= key)}
              ELSE coll' = coll
           /\ last' = [op |-> "flush_lru", count |-> count,
                       total |-> total]
    /\ UNCHANGED <<backend, now, docs, nextId, inflight>>

(* ------------------------- backing store failures ----------------------- *)

(* What the driver raises when the store cannot be reached or refuses the  *)
(* operation (mongoengine sits on pymongo).                                *)
BackendErrors == {"PyMongoError"}

(* Mutation of Outcome: the exception is caught and reported as a miss. *)
OutcomeSwallowed(reply, value) == IF reply \in BackendErrors THEN Absent ELSE value

(* add, retrieve, save and locate call the store outside any try/except:   *)
(* an exception of the call ends the method as that exception, otherwise   *)
(* the method goes on to its value.                                        *)
Outcome(reply, value) == IF reply \in BackendErrors THEN reply ELSE value

(* The record of a handler that a failing store call ended: which handler, *)
(* what its caller got, and how many store calls it had issued.            *)
FailedRecord(call, result, calls) ==
    [op |-> "failed", call |-> call, result |-> result, calls |-> calls]

(* Cache.add: its one store call, save(), raises. *)
AddFails(app, key) ==
    /\ backend = "Cache"
    /\ inflight = {}
    /\ \E err \in BackendErrors :
         last' = FailedRecord("add", Outcome(err, Absent), 1)
    /\ UNCHANGED <<backend, now, docs, nextId, inflight, coll>>

(* Cache.retrieve: the query raises, or the query answers and the delete() *)
(* or save() that follows raises.                                          *)
RetrieveFails(app, key) ==
    /\ backend = "Cache"
    /\ inflight = {}
    /\ \E err \in BackendErrors :
         \/ last' = FailedRecord("retrieve", Outcome(err, Absent), 1)
         \/ \E r \in Matching(app, key) :
              last' = FailedRecord("retrieve", Outcome(err, Returned(Path(r, now), r)), 2)
    /\ UNCHANGED <<backend, now, docs, nextId, inflight, coll>>

(* WMSCache.save: collection.save raises. *)
SaveFails(kw) ==
    /\ backend = "WMSCache"
    /\ \E err \in BackendErrors :
         last' = FailedRecord("save", Outcome(err, Absent), 1)
    /\ UNCHANGED <<backend, now, docs, nextId, inflight, coll>>

(* WMSCache.locate: find_and_modify raises; `if item` is never reached. *)
LocateFails(kw) ==
    /\ backend = "WMSCache"
    /\ LET found == {d \in coll : d.id = DocId(kw)}
       IN  \E err \in BackendErrors :
             \E value \in (IF found = {} THEN {Absent} ELSE {d.item : d \in found}) :
               last' = FailedRecord("locate", Outcome(err, value), 1)
    /\ UNCHANGED <<backend, now, docs, nextId, inflight, coll>>

(* ------------------------------- GetMap --------------------------------- *)

(* get_cache_record: the locator is built from the named request           *)
(* parameters ('fresh' is not one of them) and 'model'.                     *)
GetCacheRecordLocator(kw) == kw

(* cache_result: the locator is the request parameters with 'fresh'        *)
(* deleted, and 'model'. kw holds the cleaned parameters other than        *)
(* 'fresh'; 'model' is the same constant in both locators and is left out. *)
CacheResultLocator(kw) == kw

(* The bytes read back from the temporary file when nothing was written to *)
(* it, and `if item`: an empty payload is false.                           *)
EmptyItem == ""
ItemTruthy(item) == item # EmptyItem

(* How rendering and encoding end: the image bytes; an exception, which    *)
(* GetMap turns into NoApplicableCode; or, for an encoding that fails      *)
(* without raising (gdal is not switched to exceptions anywhere in the     *)
(* package, so a failed CreateCopy returns None), the empty bytes.         *)
Renderings == Items \cup {"NoApplicableCode", EmptyItem}

(* GetMapMixin.GetMap for cleaned parameters kw and fresh, on a view whose  *)
(* `task` is set (deferred rendering) or None. The lookup touches the      *)
(* document it finds, also when 'fresh' then discards it. `path` is how    *)
(* the request ended: served from the cache, rendered by the task,         *)
(* rendered in process, an error, or a silent encoding failure.            *)
GetMap(kw, fresh, task) ==
    /\ backend = "WMSCache"
    /\ LET docid == DocId(GetCacheRecordLocator(kw))
           found == {d \in coll : d.id = docid}
           touched == (coll \ found) \cup {[d EXCEPT !.used_time = now] : d \in found}
           hit == found # {}
           Done(path, result) ==
               [op |-> "getmap", docid |-> docid, hit |-> hit, fresh |-> fresh,
                path |-> path, result |-> result]
       IN  IF (\E d \in found : ItemTruthy(d.item)) /\ ~fresh
           THEN /\ coll' = touched
                /\ \E d \in found : last' = Done("cache", d.item)
           ELSE IF task
           THEN /\ coll' = touched
                /\ \E ret \in Items : last' = Done("task", ret)
           ELSE \E ret \in Renderings :
                  IF ret # "NoApplicableCode"
                  THEN LET saveid == DocId(CacheResultLocator(kw))
                           others == {d \in touched : d.id # saveid}
                       IN  /\ Cardinality(others) < MaxColl
                           /\ coll' = others \cup
                                {[id |-> saveid, item |-> ret, keys |-> Dict(kw),
                                  creation_time |-> now, used_time |-> now]}
                           /\ last' = Done(IF ret = EmptyItem THEN "silent" ELSE "render",
                                           ret)
                  ELSE /\ coll' = touched
                       /\ last' = Done("error", ret)
    /\ UNCHANGED <<backend, now, docs, nextId, inflight>>

(* ------------------------------ the system ------------------------------ *)

(* The clock read by datetime.now() / datetime.utcnow(). *)
Tick ==
    /\ now < MaxTime
    /\ now' = now + 1
    /\ last' = [op |-> "tick"]
    /\ UNCHANGED <<backend, docs, nextId, inflight, coll>>

Init ==
    /\ backend \in {"Cache", "WMSCache"}
    /\ now = 0
    /\ docs = {}
    /\ nextId = 1
    /\ inflight = {}
    /\ coll = {}
    /\ last = [op |-> "init"]

Next ==
    \/ Tick
    \/ \E app \in Apps, key \in Keys, expires \in Expirations :
         Add(app, Payloads[nextId], key, expires)
    \/ \E app \in Apps, key \in Keys : Retrieve(app, key)
    \/ \E limit \in Limits : Clean(limit)
    \/ \E app \in Apps, q \in Criteria : Clear(app, q)
    \/ \E app \in Apps : AdminClear(app)
    \/ \E item \in Items, kw \in KwArgs : Save(item, kw)
    \/ \E kw \in KwArgs : Locate(kw)
    \/ Flush
    \/ \E count \in 0..MaxLimit : FlushLru(count)

Spec == Init /\ [][Next]_vars

(* The request side: GetMap over the WMSCache, and the puts and gets of     *)
(* both caches over a store whose calls may fail.                          *)
NextOws ==
    \/ Tick
    \/ \E app \in Apps, key \in Keys, expires \in Expirations :
         Add(app, Payloads[nextId], key, expires)
    \/ \E app \in Apps, key \in Keys : Retrieve(app, key)
    \/ \E item \in Items, kw \in KwArgs : Save(item, kw)
    \/ \E kw \in KwArgs : Locate(kw)
    \/ \E app \in Apps, key \in Keys : AddFails(app, key)
    \/ \E app \in Apps, key \in Keys : RetrieveFails(app, key)
    \/ \E kw \in KwArgs : SaveFails(kw)
    \/ \E kw \in KwArgs : LocateFails(kw)

SpecOws == Init /\ [][NextOws]_vars

(* The map service over its cache: requests, and the cache written and     *)
(* read directly.                                                          *)
InitGetMap == Init /\ backend = "WMSCache"

NextGetMap ==
    \/ Tick
    \/ \E item \in Items, kw \in KwArgs : Save(item, kw)
    \/ \E kw \in KwArgs : Locate(kw)
    \/ \E kw \in KwArgs, fresh \in BOOLEAN, task \in BOOLEAN : GetMap(kw, fresh, task)

SpecGetMap == InitGetMap /\ [][NextGetMap]_vars

InitConc == Init /\ backend = "Cache"

NextConc ==
    \/ Tick
    \/ \E app \in Apps, key \in Keys, expires \in Expirations :
         Add(app, Payloads[nextId], key, expires)
    \/ \E app \in Apps, key \in Keys : RetrieveFind(app, key)
    \/ RetrieveExpire
    \/ RetrieveTouch
    \/ \E limit \in Limits : Clean(limit)
    \/ \E app \in Apps, q \in Criteria : Clear(app, q)
    \/ \E app \in Apps : AdminClear(app)

SpecConc == InitConc /\ [][NextConc]_vars

(* ------------------------- rendering: palettes -------------------------- *)

(* Band values are numbers or None. The numbers are 0..MaxNum; None is     *)
(* written as a number below them all, which is where Python 2's cmp puts  *)
(* it (`value is None` is then value = NoneValue).                         *)
MaxNum == 2
Numbers == 0..MaxNum
NoneValue == 0 - 1
Values == Numbers \cup {NoneValue}

(* Colors as returned by rgba(): two distinct packed colors. What a call   *)
(* can hand back besides: the integer 0 of Palette, None, or an exception. *)
Colors == {"X", "Y"}
Zero == "0"
NoColor == "None"

(* Python 2's cmp *)
Cmp(a, b) == IF a < b THEN 0 - 1 ELSE IF a > b THEN 1 ELSE 0

(* __init__ of ColorBin and LinearGradient, lines 128-136 / 209-217 *)
Rcmp(include_right) == IF include_right THEN 0 ELSE 0 - 1
Lcmp(include_left) == IF include_left THEN 0 ELSE 1

(* ColorBin.__contains__ and LinearGradient.__contains__ *)
BinContains(b, value) ==
    /\ Cmp(value, b.l) <= Lcmp(b.include_left)
    /\ Cmp(value, b.r) >= Rcmp(b.include_right)

(* numpy.array(object, dtype, ...): a call that gives dtype by keyword and *)
(* two or more positional arguments names dtype twice.                     *)
NpArray(positional, dtypeKeyword) ==
    IF dtypeKeyword /\ positional >= 2 THEN "TypeError" ELSE "ndarray"

(* LinearGradient._rgb: the branch is chosen by the hue h (`h /- 60` is an *)
(* expression, h stays in degrees); every branch builds its array the same *)
(* way, np.array(c, x, 0, a, dtype=np.float32).                            *)
HueBranches == 1..7
Rgb(branch) ==
    CASE branch = 1 -> NpArray(4, TRUE)
      [] branch = 2 -> NpArray(4, TRUE)
      [] branch = 3 -> NpArray(4, TRUE)
      [] branch = 4 -> NpArray(4, TRUE)
      [] branch = 5 -> NpArray(4, TRUE)
      [] branch = 6 -> NpArray(4, TRUE)
      [] OTHER -> NpArray(4, TRUE)

(* LinearGradient.interp on a number, (v - l) / (r - l) as a fraction *)
Interp(b, v) == [num |-> v - b.l, den |-> b.r - b.l]

(* LinearGradient.__call__: interp subtracts from the value (None cannot   *)
(* be subtracted from) and divides by (r - l), then _rgb. An array         *)
(* that _rgb did build would go through rint to the color; which color is  *)
(* not computed here, only that it is one.                                 *)
GradientCall(b, value, branch) ==
    IF value = NoneValue THEN "TypeError"
    ELSE IF b.r = b.l THEN "ZeroDivisionError"
    ELSE IF Rgb(branch) = "ndarray" THEN "color"
    ELSE Rgb(branch)

(* The bands. Choices holds dict(zip(choices, colors)), here one choice.   *)
(* Lambda holds fn, given by the values it maps to None, and null_color.   *)
Intervals == {<<l, r>> \in Numbers \X Numbers : l <= r}
ColorBins ==
    {[kind |-> "ColorBin", color |-> c, l |-> i[1], r |-> i[2],
      include_left |-> il, include_right |-> ir] :
        c \in Colors, i \in Intervals, il \in BOOLEAN, ir \in BOOLEAN}
LinearGradients ==
    {[kind |-> "LinearGradient", color |-> "X", right_color |-> "Y",
      l |-> i[1], r |-> i[2], include_left |-> il, include_right |-> ir] :
        i \in Intervals, il \in BOOLEAN, ir \in BOOLEAN}
CatchAlls == {[kind |-> "CatchAll", color |-> c] : c \in Colors}
NullColorEntries == {[kind |-> "NullColorEntry", color |-> c] : c \in Colors}
ChoicesBands == {[kind |-> "Choices", color |-> "X", choice |-> n] : n \in Numbers}
Lambdas ==
    {[kind |-> "Lambda", color |-> "X", nulls |-> {n}, null_color |-> nc] :
        n \in Numbers, nc \in {NoColor, "Y"}}

(* `value in band`: the band's __contains__ *)
Contains(b, value) ==
    CASE b.kind = "ColorBin" -> BinContains(b, value)
      [] b.kind = "LinearGradient" -> BinContains(b, value)
      [] b.kind = "CatchAll" -> TRUE
      [] b.kind = "NullColorEntry" -> value = NoneValue
      [] b.kind = "Choices" -> value = b.choice
      [] b.kind = "Lambda" -> b.null_color = NoColor /\ value \in b.nulls

(* band(value): the band's __call__. Choices calls its dict,               *)
(* self.choices(value), and a dict is not callable.                        *)
BandCall(b, value, branch) ==
    CASE b.kind = "ColorBin" -> b.color
      [] b.kind = "LinearGradient" -> GradientCall(b, value, branch)
      [] b.kind = "CatchAll" -> b.color
      [] b.kind = "NullColorEntry" -> b.color
      [] b.kind = "Choices" -> "TypeError"
      [] b.kind = "Lambda" -> IF value \in b.nulls THEN b.null_color ELSE "color"

(* Palette.__call__ *)
RECURSIVE PaletteCall(_, _, _)
PaletteCall(bands, value, branch) ==
    IF bands = <<>> THEN Zero
    ELSE IF Contains(bands[1], value)
         THEN BandCall(bands[1], value, branch)
         ELSE PaletteCall(Tail(bands), value, branch)

(* The bands palettes are built from here, and the palettes: up to         *)
(* MaxBands bands in construction order.                                   *)
MaxBands == 2
PaletteBands ==
    {b \in ColorBins : b.include_left /\ b.include_right}
        \cup {b \in ColorBins : b.color = "Y" /\ b.l < b.r}
        \cup {b \in LinearGradients : ~b.include_left /\ b.l < b.r}
        \cup CatchAlls \cup NullColorEntries \cup ChoicesBands \cup Lambdas
Palettes == UNION {[1..n -> PaletteBands] : n \in 0..MaxBands}

(* What is built and evaluated: a band asked for membership of a value, a   *)
(* gradient called with a value, or a palette called with a value. For a    *)
(* gradient, `branch` is the branch of _rgb that the interpolated hue       *)
(* selects.                                                                 *)
Built(call, bands, value, branch) ==
    [op |-> "build", call |-> call, bands |-> bands, value |-> value,
     branch |-> branch]

PaletteInputs ==
    {Built("contains", <<b>>, value, 1) :
        b \in ColorBins \cup LinearGradients, value \in Values}
    \cup {Built("gradient", <<b>>, value, branch) :
        b \in LinearGradients, value \in Numbers, branch \in HueBranches}
    \cup {Built("palette", bands, value, 1) : bands \in Palettes, value \in Values}

(* value in band *)
CallContains ==
    /\ backend = "Rendering"
    /\ last.op = "build"
    /\ last.call = "contains"
    /\ last' = [op |-> "contains", band |-> last.bands[1], value |-> last.value,
                member |-> Contains(last.bands[1], last.value)]
    /\ UNCHANGED <<backend, now, docs, nextId, inflight, coll>>

(* gradient(value) *)
CallGradient ==
    /\ backend = "Rendering"
    /\ last.op = "build"
    /\ last.call = "gradient"
    /\ last' = [op |-> "gradient", band |-> last.bands[1], value |-> last.value,
                result |-> BandCall(last.bands[1], last.value, last.branch)]
    /\ UNCHANGED <<backend, now, docs, nextId, inflight, coll>>

(* palette(value) *)
CallPalette ==
    /\ backend = "Rendering"
    /\ last.op = "build"
    /\ last.call = "palette"
    /\ last' = [op |-> "palette", bands |-> last.bands, value |-> last.value,
                result |-> PaletteCall(last.bands, last.value, last.branch)]
    /\ UNCHANGED <<backend, now, docs, nextId, inflight, coll>>

(* The rendering objects hold no store: the cache variables stay empty. *)
InitRendering ==
    /\ backend = "Rendering"
    /\ now = 0
    /\ docs = {}
    /\ nextId = 1
    /\ inflight = {}
    /\ coll = {}

InitPalette == InitRendering /\ last \in PaletteInputs

NextPalette == CallContains \/ CallGradient \/ CallPalette

SpecPalette == InitPalette /\ [][NextPalette]_vars

(* --------------------------- rendering: SLD ----------------------------- *)

(* Expression nodes. PA holds a field name, L a value.                     *)
PANodes == {[kind |-> "PA", field |-> "f"]}
Strings == {"a", "b", "c"}
LNodes(S) == {[kind |-> "L", value |-> x] : x \in S}

(* L.__init__: float(value) is tried, then line 61 stores the value as     *)
(* given unless it is a hex color (none of the values here is one).        *)
LValue(node) == node.value

(* node(data): calling the node object. L defines __call__; PA defines a   *)
(* method named `call` and no __call__, so calling a PA is a TypeError.    *)
Apply(node, data) ==
    CASE node.kind = "L" -> LValue(node)
      [] node.kind = "PA" -> "TypeError"

(* Recode.__call__: v = self.e(data), whose exception ends the call, then  *)
(* the lookup.                                                             *)
RecodeCall(e, default, code, data) ==
    LET v == Apply(e, data)
    IN  IF v = "TypeError" THEN v
        ELSE IF v \in DOMAIN code THEN code[v] ELSE default

(* The mappings **kwargs of Recode: keyword names to recoded values. *)
Codes == UNION {[K -> {"V1", "V2"}] : K \in SUBSET {"a", "b"}}

(* What evaluating a clause on the record gives: a true value, a false     *)
(* value, or an exception (math.log of 0 raises ValueError).               *)
ClauseOutcomes == {"True", "False", "ValueError"}
MaxClauses == 3
ClauseLists == UNION {[1..n -> ClauseOutcomes] : n \in 0..MaxClauses}

(* Mutation of AllFrom: all([e(data) for e in es]), the list built first.  *)
AllFromEager(es, i) ==
    IF \E j \in i..Len(es) : es[j] = "ValueError"
    THEN [result |-> "ValueError",
          evaluated |-> CHOOSE j \in i..Len(es) :
                          es[j] = "ValueError" /\ \A k \in i..(j - 1) : es[k] # "ValueError"]
    ELSE [result |-> IF \E j \in i..Len(es) : es[j] = "False" THEN "False" ELSE "True",
          evaluated |-> Len(es)]

(* all(e(data) for e in es): the generator yields one clause at a time and *)
(* all() stops at the first false one. `evaluated` is the number of        *)
(* clauses called.                                                         *)
RECURSIVE AllFrom(_, _)
AllFrom(es, i) ==
    IF i > Len(es) THEN [result |-> "True", evaluated |-> i - 1]
    ELSE IF es[i] = "ValueError" THEN [result |-> "ValueError", evaluated |-> i]
    ELSE IF es[i] = "False" THEN [result |-> "False", evaluated |-> i]
    ELSE AllFrom(es, i + 1)

(* any(e(data) for e in es) *)
RECURSIVE AnyFrom(_, _)
AnyFrom(es, i) ==
    IF i > Len(es) THEN [result |-> "False", evaluated |-> i - 1]
    ELSE IF es[i] = "ValueError" THEN [result |-> "ValueError", evaluated |-> i]
    ELSE IF es[i] = "True" THEN [result |-> "True", evaluated |-> i]
    ELSE AnyFrom(es, i + 1)

(* And.__call__, Or.__call__ *)
AndCall(es) == AllFrom(es, 1)
OrCall(es) == AnyFrom(es, 1)

(* Btw.__call__ over three literals: v = e(data), then                     *)
(* v <= r(data) and v >= e(data).                                          *)
BtwCall(e, l, r, data) ==
    LET v == Apply(e, data)
    IN  v <= Apply(r, data) /\ v >= Apply(e, data)

Records == {[f |-> s] : s \in Strings}

SldInputs ==
    {[op |-> "build", call |-> "recode", e |-> e, default |-> "D", code |-> code,
      data |-> data] :
        e \in PANodes \cup LNodes(Strings), code \in Codes, data \in Records}
    \cup {[op |-> "build", call |-> c, es |-> es] :
        c \in {"and", "or"}, es \in ClauseLists}
    \cup {[op |-> "build", call |-> "btw", e |-> e, l |-> l, r |-> r] :
        e \in LNodes(Numbers), l \in LNodes(Numbers), r \in LNodes(Numbers)}

CallRecode ==
    /\ backend = "Rendering"
    /\ last.op = "build"
    /\ last.call = "recode"
    /\ last' = [op |-> "recode", e |-> last.e, default |-> last.default,
                code |-> last.code, data |-> last.data,
                result |-> RecodeCall(last.e, last.default, last.code, last.data)]
    /\ UNCHANGED <<backend, now, docs, nextId, inflight, coll>>

CallAnd ==
    /\ backend = "Rendering"
    /\ last.op = "build"
    /\ last.call = "and"
    /\ last' = [op |-> "and", es |-> last.es, result |-> AndCall(last.es).result,
                evaluated |-> AndCall(last.es).evaluated]
    /\ UNCHANGED <<backend, now, docs, nextId, inflight, coll>>

CallOr ==
    /\ backend = "Rendering"
    /\ last.op = "build"
    /\ last.call = "or"
    /\ last' = [op |-> "or", es |-> last.es, result |-> OrCall(last.es).result,
                evaluated |-> OrCall(last.es).evaluated]
    /\ UNCHANGED <<backend, now, docs, nextId, inflight, coll>>

CallBtw ==
    /\ backend = "Rendering"
    /\ last.op = "build"
    /\ last.call = "btw"
    /\ last' = [op |-> "btw", e |-> last.e.value, l |-> last.l.value,
                r |-> last.r.value,
                result |-> BtwCall(last.e, last.l, last.r, [f |-> "a"])]
    /\ UNCHANGED <<backend, now, docs, nextId, inflight, coll>>

InitSld == InitRendering /\ last \in SldInputs

NextSld == CallRecode \/ CallAnd \/ CallOr \/ CallBtw

SpecSld == InitSld /\ [][NextSld]_vars

(* ---------------------- rendering: SLD, further nodes ------------------- *)

(* Strings as sequences of characters, up to MaxStr long. '%' is the       *)
(* wildcard of Like patterns and an ordinary character of values.          *)
MaxStr == 2
Chars == {"a", "b", "%"}
Texts(n) == UNION {[1..k -> Chars] : k \in 0..n}

(* str.startswith, str.endswith, `p in s` *)
StartsWith(s, p) == Len(p) <= Len(s) /\ SubSeq(s, 1, Len(p)) = p
EndsWith(s, p) == Len(p) <= Len(s) /\ SubSeq(s, Len(s) - Len(p) + 1, Len(s)) = p
IsIn(p, s) == \E i \in 0..(Len(s) - Len(p)) : SubSeq(s, i + 1, i + Len(p)) = p

(* re.match(pattern, v) for a pattern of ordinary characters (none of      *)
(* Chars is special in a regular expression): the pattern is matched at    *)
(* the start of v, and v may go on after it. The match object is true.     *)
ReMatch(pattern, v) == StartsWith(v, pattern)

(* Like.__call__: the pattern is used whole in each mode. *)
LikeCall(value, v) ==
    IF StartsWith(value, <<"%">>) /\ EndsWith(value, <<"%">>) THEN IsIn(value, v)
    ELSE IF StartsWith(value, <<"%">>) THEN EndsWith(v, value)
    ELSE IF EndsWith(value, <<"%">>) THEN StartsWith(v, value)
    ELSE ReMatch(value, v)

LikeInputs ==
    {[op |-> "build", call |-> "like", value |-> p, v |-> v] :
        p \in Texts(MaxStr + 1) \ {<<>>}, v \in Texts(MaxStr)}

CallLike ==
    /\ backend = "Rendering"
    /\ last.op = "build"
    /\ last.call = "like"
    /\ last' = [op |-> "like", value |-> last.value, v |-> last.v,
                result |-> LikeCall(last.value, last.v)]
    /\ UNCHANGED <<backend, now, docs, nextId, inflight, coll>>

(* Values a record stores under a field. A string is described by what     *)
(* the accessor looks at: its length, whether it starts with '#', and      *)
(* whether the characters after the '#' are hexadecimal digits.            *)
Fields == {"f", "g"}
StrLens == {0, 4, 7, 9}
Scalar(kind) == [kind |-> kind, len |-> 0, hash |-> FALSE, hex |-> FALSE]
StoredStrings == [kind : {"str"}, len : StrLens, hash : BOOLEAN, hex : BOOLEAN]
StoredValues ==
    {Scalar(k) : k \in {"int", "float", "bool", "date", "None"}} \cup StoredStrings
DataRecords == UNION {[D -> StoredValues] : D \in {{}, {"f"}}}

(* isinstance(k, int): bool is a subclass of int *)
IsInstanceInt(k) == k.kind \in {"int", "bool"}
(* len(value) is defined for strings only *)
HasLen(k) == k.kind = "str"
(* _isHexColor, for a value that has a length *)
IsHexColor(k) == (k.len = 7 \/ k.len = 9) /\ k.hash
(* _parseHexColor: int(value[i:j], 16) raises on other characters *)
ParseHexColor(k) == IF k.hex THEN "Color" ELSE "ValueError"

(* PA.call. The outcome names what is returned: the raw value itself       *)
(* ("unchanged"), the kind of the converted value, or the exception.       *)
PACall(field, data) ==
    IF field \notin DOMAIN data THEN "KeyError"
    ELSE LET raw == data[field]
             k == IF IsInstanceInt(raw) THEN Scalar("float") ELSE raw
         IN  IF ~HasLen(k) THEN "TypeError"
             ELSE IF IsHexColor(k) THEN ParseHexColor(k)
             ELSE IF k = raw THEN "unchanged" ELSE k.kind

PAInputs ==
    {[op |-> "build", call |-> "pa", field |-> f, data |-> d] :
        f \in Fields, d \in DataRecords}

CallPA ==
    /\ backend = "Rendering"
    /\ last.op = "build"
    /\ last.call = "pa"
    /\ last' = [op |-> "pa", field |-> last.field, data |-> last.data,
                result |-> PACall(last.field, last.data)]
    /\ UNCHANGED <<backend, now, docs, nextId, inflight, coll>>

(* Numbers as the arithmetic nodes see them: an int or a float, held as a  *)
(* fraction num/den so that division is exact. Other kinds are the         *)
(* exception raised, or None.                                              *)
Num(kind, num, den) == [kind |-> kind, num |-> num, den |-> den]
NoValue(kind) == Num(kind, 0, 1)
IsNumber(x) == x.kind \in {"int", "float"}
Operands == {Num(k, n, 1) : k \in {"int", "float"}, n \in Numbers}
Operators == {"Add", "Subtract", "Multiply", "Divide"}

(* a + b, a - b, a * b, a / b of Python 2 on ints and floats: the result   *)
(* is a float when either side is; int / int floors; x / 0 raises.         *)
BinaryOp(operator, a, b) ==
    LET kind == IF a.kind = "float" \/ b.kind = "float" THEN "float" ELSE "int"
    IN  CASE operator = "Add" -> Num(kind, a.num * b.den + b.num * a.den, a.den * b.den)
          [] operator = "Subtract" -> Num(kind, a.num * b.den - b.num * a.den, a.den * b.den)
          [] operator = "Multiply" -> Num(kind, a.num * b.num, a.den * b.den)
          [] operator = "Divide" ->
                IF b.num = 0 THEN NoValue("ZeroDivisionError")
                ELSE IF kind = "int" THEN Num("int", a.num \div b.num, 1)
                ELSE IF b.num < 0 THEN Num(kind, (0 - a.num) * b.den, a.den * (0 - b.num))
                ELSE Num(kind, a.num * b.den, a.den * b.num)

(* float.__add__(acc, x) and its siblings: an unbound method of float,     *)
(* which refuses an accumulator that is not a float.                       *)
FloatMethod(operator, acc, x) ==
    IF acc.kind # "float" THEN NoValue("TypeError")
    ELSE BinaryOp(operator, acc, x)

(* reduce(function, rest, initial), from the i-th element on *)
RECURSIVE Reduce(_, _, _, _)
Reduce(operator, acc, rest, i) ==
    IF i > Len(rest) THEN acc
    ELSE LET step == FloatMethod(operator, acc, rest[i])
         IN  IF IsNumber(step) THEN Reduce(operator, step, rest, i + 1) ELSE step

(* The value the body of __call__ computes *)
ArithComputed(operator, exp1, exp2, rest) ==
    LET initial == BinaryOp(operator, exp1, exp2)
    IN  IF IsNumber(initial) THEN Reduce(operator, initial, rest, 1) ELSE initial

(* Add.__call__, Subtract.__call__, Multiply.__call__, Divide.__call__:    *)
(* the body is an expression statement, the method has no return.          *)
ArithCall(operator, exp1, exp2, rest) ==
    LET computed == ArithComputed(operator, exp1, exp2, rest)
    IN  IF IsNumber(computed) THEN NoValue("None") ELSE computed

MaxRest == 1
ArithInputs ==
    {[op |-> "build", call |-> "arith", operator |-> o, exp1 |-> a, exp2 |-> b,
      rest |-> r] :
        o \in Operators, a \in Operands, b \in Operands,
        r \in UNION {[1..k -> Operands] : k \in 0..MaxRest}}

CallArith ==
    /\ backend = "Rendering"
    /\ last.op = "build"
    /\ last.call = "arith"
    /\ last' = [op |-> "arith", operator |-> last.operator, exp1 |-> last.exp1,
                exp2 |-> last.exp2, rest |-> last.rest,
                computed |-> ArithComputed(last.operator, last.exp1, last.exp2, last.rest),
                result |-> ArithCall(last.operator, last.exp1, last.exp2, last.rest)]
    /\ UNCHANGED <<backend, now, docs, nextId, inflight, coll>>

(* Mutation of Active: the scale bounds taken inclusive. *)
ActiveInclusive(min_scale, max_scale, pxsize) ==
    pxsize >= min_scale /\ pxsize <= max_scale

(* Rule.__call__: `pxsize > self.min_scale and pxsize < self.max_scale` *)
Active(min_scale, max_scale, pxsize) ==
    pxsize > min_scale /\ pxsize < max_scale

(* Rule.__call__ with Rule.test: outside the scale range the method falls  *)
(* off its end and returns None without calling test.                      *)
RuleCall(min_scale, max_scale, clauses, pxsize) ==
    IF Active(min_scale, max_scale, pxsize) THEN AllFrom(clauses, 1)
    ELSE [result |-> "None", evaluated |-> 0]

RuleInputs ==
    {[op |-> "build", call |-> "rule", min_scale |-> lo, max_scale |-> hi,
      clauses |-> es, pxsize |-> px] :
        lo \in Numbers, hi \in Numbers, es \in ClauseLists, px \in Numbers}

CallRule ==
    /\ backend = "Rendering"
    /\ last.op = "build"
    /\ last.call = "rule"
    /\ LET r == RuleCall(last.min_scale, last.max_scale, last.clauses, last.pxsize)
       IN  last' = [op |-> "rule", min_scale |-> last.min_scale,
                    max_scale |-> last.max_scale, clauses |-> last.clauses,
                    pxsize |-> last.pxsize, result |-> r.result,
                    evaluated |-> r.evaluated]
    /\ UNCHANGED <<backend, now, docs, nextId, inflight, coll>>

(* Interpolate pairs (value, threshold), thresholds in descending order    *)
(* with None (NoneValue, below every number) last. Numbers are floats,     *)
(* held as fractions.                                                      *)
MaxPairs == 3
PairValues == {0, 1}
Thresholds == Numbers \cup {NoneValue}
Descending(pairs) ==
    \A i \in 1..(Len(pairs) - 1) : pairs[i].threshold >= pairs[i + 1].threshold
InterpolatePairs ==
    {pairs \in UNION {[1..n -> [value : PairValues, threshold : Thresholds]] :
                        n \in 1..MaxPairs} : Descending(pairs)}

InterpolateOutcome(kind, selected, y, value) ==
    [kind |-> kind, selected |-> selected, y |-> y, value |-> value]
NoFraction == [num |-> 0, den |-> 1]

(* Interpolate.__call__ with method LINEAR, from the i-th pair on: the     *)
(* first pair with a None threshold returns its value; the first pair with *)
(* v >= threshold blends with pairs[i+1]; a loop that ends returns None.   *)
RECURSIVE InterpolateFrom(_, _, _)
InterpolateFrom(pairs, v, i) ==
    IF i > Len(pairs) THEN InterpolateOutcome("None", 0, NoFraction, NoFraction)
    ELSE IF pairs[i].threshold = NoneValue
    THEN InterpolateOutcome("value", i, NoFraction, [num |-> pairs[i].value, den |-> 1])
    ELSE IF v >= pairs[i].threshold
    THEN IF i + 1 > Len(pairs) THEN InterpolateOutcome("IndexError", i, NoFraction, NoFraction)
         ELSE IF pairs[i + 1].threshold = NoneValue
         THEN InterpolateOutcome("TypeError", i, NoFraction, NoFraction)
         ELSE LET xmin == pairs[i].threshold
                  xmax == pairs[i + 1].threshold
                  xspn == xmax - xmin
                  y == [num |-> v - xmin, den |-> xspn]
              IN  IF xspn = 0 THEN InterpolateOutcome("ZeroDivisionError", i, NoFraction, NoFraction)
                  ELSE InterpolateOutcome("blend", i, y,
                                [num |-> y.num * pairs[i].value
                                         + (y.den - y.num) * pairs[i + 1].value,
                                 den |-> y.den])
    ELSE InterpolateFrom(pairs, v, i + 1)

InterpolateCall(pairs, v) == InterpolateFrom(pairs, v, 1)

InterpolateInputs ==
    {[op |-> "build", call |-> "interpolate", pairs |-> ps, v |-> v] :
        ps \in InterpolatePairs, v \in Numbers}

CallInterpolate ==
    /\ backend = "Rendering"
    /\ last.op = "build"
    /\ last.call = "interpolate"
    /\ last' = [op |-> "interpolate", pairs |-> last.pairs, v |-> last.v,
                result |-> InterpolateCall(last.pairs, last.v)]
    /\ UNCHANGED <<backend, now, docs, nextId, inflight, coll>>

ExprInputs ==
    LikeInputs \cup PAInputs \cup ArithInputs \cup RuleInputs \cup InterpolateInputs

InitExpr == InitRendering /\ last \in ExprInputs

NextExpr ==
    \/ CallLike
    \/ CallPA
    \/ CallArith
    \/ CallRule
    \/ CallInterpolate

SpecExpr == InitExpr /\ [][NextExpr]_vars

(* -------------------------------- claims -------------------------------- *)

(* `last` describes the step just taken: every step writes it. *)
Completed(op) == last'.op = op

(* C1: immediately after put(application, payload, key) with no expiration *)
(* or one still in the future, get(application, key) returns exactly that  *)
(* payload, also when an earlier put under the same (application, key)     *)
(* stored a different payload. Cache: add then retrieve; WMSCache: save    *)
(* then locate.                                                            *)
C1_GetAfterPut ==
    [][ /\ ( /\ last.op = "add"
             /\ Completed("retrieve")
             /\ last'.application = last.application
             /\ last'.cache_key = last.cache_key
             /\ \A e \in last.expires : e > now )
           => last'.result = last.item
        /\ ( /\ last.op = "save"
             /\ Completed("locate")
             /\ last'.docid = last.docid )
           => last'.result = last.item ]_vars

(* C2: when an entry's expiration has passed, the next get reports Absent  *)
(* without raising and removes the entry, so that the store holds nothing  *)
(* under that key for a second get to find.                                *)
C2_ExpiredGetIsAbsent ==
    (last.op = "retrieve" /\ last.path = "expire")
        => /\ last.result = Absent
           /\ Matching(last.application, last.cache_key) = {}

(* C3: the store holds at most one entry per (application, cache_key).     *)
C3_OneEntryPerKey ==
    /\ \A d1, d2 \in docs :
         (d1.application = d2.application /\ d1.cache_key = d2.cache_key) => d1 = d2
    /\ \A d1, d2 \in coll : d1.id = d2.id => d1 = d2

(* C4: evict_lru(n) leaves exactly min(n, total_before) entries. Cache:    *)
(* clean(limit=n), counted from the entries its expiration sweep leaves;   *)
(* WMSCache: flush_lru(n).                                                 *)
C4_EvictLeavesMin ==
    [][ /\ (Completed("clean") /\ Truthy(last'.limit))
           => \A n \in last'.limit :
                Cardinality(docs') =
                    Min(n, Cardinality({d \in docs : \A e \in d.expires : e >= now}))
        /\ Completed("flush_lru")
           => Cardinality(coll') = Min(last'.count, Cardinality(coll)) ]_vars

(* C5: no entry removed by an eviction has an access timestamp later than  *)
(* that of a surviving entry. Cache: the entries clean(limit) removes      *)
(* beyond the expired ones; WMSCache: the entries flush_lru removes.       *)
C5_EvictsLeastRecent ==
    [][ /\ (Completed("clean") /\ Truthy(last'.limit))
           => \A x \in docs \ docs', y \in docs' :
                (\A e \in x.expires : e >= now) => x.access <= y.access
        /\ Completed("flush_lru")
           => \A x \in coll \ coll', y \in coll' : x.used_time <= y.used_time ]_vars

(* An eviction removed an entry and kept a more recently accessed one. *)
C5_Witness ==
    /\ last.op = "clean"
    /\ last.evicted = 1
    /\ \E y \in docs : y.access = now /\ y.when < now

(* C6: key derivation is order-independent: a stored document is filed    *)
(* under the key that every order of its parameters derives, so save and   *)
(* locate meet in the same key whatever the order the parameters come in.  *)
C6_KeyOrderIndependent ==
    \A d \in coll, kw \in KwArgs : Dict(kw) = d.keys => DocId(kw) = d.id

(* A locate whose two parameters did not come in sorted order found the    *)
(* document stored under those parameters.                                 *)
C6_Witness ==
    /\ last.op = "locate"
    /\ ~last.inorder
    /\ last.result # Absent
    /\ \E d \in coll : d.id = last.docid /\ Cardinality(d.keys) = 2

(* C7: a get whose entry an eviction or an expiration sweep deletes        *)
(* between the get's read and its write resolves as a cache miss.          *)
C7_DeletedMidFlightIsMiss ==
    (last.op = "retrieve" /\ last.deleted \in {"sweep", "evict"})
        => last.result = Absent

(* C8: no entry comes back once removed. A step that removes an entry of   *)
(* a key leaves no entry under that key; a key without an entry gets one   *)
(* only by a put of that key; and a get of a key without an entry reports  *)
(* Absent.                                                                 *)
C8_NoResurrection ==
    [][ \A app \in Apps, key \in Keys :
          LET before == {d \in docs : d.application = app /\ d.cache_key = key}
              after  == {d \in docs' : d.application = app /\ d.cache_key = key}
          IN  /\ (\E d \in before : d.id \notin Ids(docs')) => after = {}
              /\ (before = {} /\ after # {})
                   => /\ Completed("add")
                      /\ last'.application = app
                      /\ last'.cache_key = key
              /\ ( /\ before = {}
                   /\ Completed("retrieve")
                   /\ last'.application = app
                   /\ last'.cache_key = key )
                   => last'.result = Absent ]_vars

(* C9: a get that hits an unexpired entry returns its payload and sets     *)
(* its access timestamp to the current time; the entry's other fields and  *)
(* every other entry stay as they were.                                    *)
C9_HitOnlyTouchesAccess ==
    [][ /\ (Completed("retrieve") /\ last'.path = "touch")
           => \E d \in docs :
                /\ d.application = last'.application
                /\ d.cache_key = last'.cache_key
                /\ \A e \in d.expires : e >= now
                /\ last'.result = d.item
                /\ \E n \in docs' :
                     /\ n.id = d.id
                     /\ n.access = now
                     /\ n.item = d.item
                     /\ n.cache_key = d.cache_key
                     /\ n.application = d.application
                     /\ n.when = d.when
                     /\ n.expires = d.expires
                /\ \A x \in docs : x.id # d.id => x \in docs'
                /\ \A n \in docs' : n.id # d.id => n \in docs
                /\ Cardinality(docs') = Cardinality(docs)
        /\ \A d \in coll :
             (Completed("locate") /\ d.id = last'.docid)
               => /\ last'.result = d.item
                  /\ \A c \in coll : c.id # d.id => c \in coll'
                  /\ \A n \in coll' :
                       IF n.id = d.id
                       THEN /\ n.used_time = now
                            /\ n.item = d.item
                            /\ n.keys = d.keys
                            /\ n.creation_time = d.creation_time
                       ELSE n \in coll
                  /\ \E n \in coll' : n.id = d.id ]_vars

(* A retrieve hit an entry created earlier, next to another entry. *)
C9_Witness ==
    /\ last.op = "retrieve"
    /\ last.path = "touch"
    /\ Cardinality(docs) = 2
    /\ \E d \in docs :
         /\ d.application = last.application
         /\ d.cache_key = last.cache_key
         /\ d.item = last.result
         /\ d.access = now
         /\ d.when < d.access

(* C10: sweep_expired (clean, whose first statement it is) deletes every   *)
(* entry, of every application, whose expiration has passed; clean without *)
(* a limit deletes no entry whose expiration is absent or not yet passed.  *)
C10_SweepDeletesExpiredOnly ==
    [][ Completed("clean")
          => /\ \A d \in docs :
                  (d.expires # {} /\ \A e \in d.expires : e < now) => d \notin docs'
             /\ ~Truthy(last'.limit)
                  => \A d \in docs :
                       (d.expires = {} \/ \A e \in d.expires : e >= now) => d \in docs' ]_vars

(* A clean without a limit swept an expired entry and kept an entry whose  *)
(* expiration is set and has not passed.                                   *)
C10_Witness ==
    /\ last.op = "clean"
    /\ ~Truthy(last.limit)
    /\ last.swept >= 1
    /\ \E d \in docs : d.expires # {}

(* C11: clear(application, criteria) deletes exactly the entries of that   *)
(* application whose fields equal all the given criteria; every other      *)
(* entry stays as it was. The admin view clears with no criteria.          *)
C11_ClearDeletesExactlyMatching ==
    [][ /\ Completed("clear")
           => docs' = {d \in docs :
                         ~( /\ d.application = last'.application
                            /\ \A f \in DOMAIN last'.q : d[f] = last'.q[f] )}
        /\ Completed("admin_clear")
           => docs' = {d \in docs : d.application # last'.application} ]_vars

(* A clear by cache_key removed an entry and left an entry of the same     *)
(* application under another key.                                          *)
C11_Witness ==
    /\ last.op = "clear"
    /\ DOMAIN last.q = {"cache_key"}
    /\ last.removed >= 1
    /\ \E d \in docs : d.application = last.application

(* C12: after a render request misses the cache and is rendered, on either *)
(* rendering path of GetMap (in process, or by the deferred task), the     *)
(* result is stored under the key the lookup used.                         *)
C12_RenderedIsStored ==
    [][ ( /\ Completed("getmap")
          /\ ~last'.hit
          /\ last'.path \in {"render", "task"} )
          => \E d \in coll' : d.id = last'.docid /\ d.item = last'.result ]_vars

(* C13: a failure of the backing store during get or put reaches the       *)
(* caller as that failure, never as a miss or a payload, and the handler   *)
(* issues no store call again after the one that failed: put and the       *)
(* WMSCache get make one call, the Cache get at most its query and its     *)
(* write.                                                                  *)
C13_BackendFailureSurfaces ==
    last.op = "failed"
        => /\ last.result \in BackendErrors
           /\ last.result # Absent
           /\ last.calls <= (IF last.call = "retrieve" THEN 2 ELSE 1)

(* A get failed on a key the store holds an entry for: as a miss it would  *)
(* have been wrong, and the entry is still there.                          *)
C13_Witness ==
    /\ last.op = "failed"
    /\ last.call = "locate"
    /\ coll # {}

(* C14: for a ColorBin with bounds l <= r, membership holds for exactly    *)
(* the values strictly between l and r, plus l iff include_left, plus r    *)
(* iff include_right.                                                      *)
C14_ColorBinMembership ==
    (last.op = "contains" /\ last.band.kind = "ColorBin" /\ last.value \in Numbers)
        => LET b == last.band
               v == last.value
           IN  last.member <=> \/ (b.l < v /\ v < b.r)
                                \/ (v = b.l /\ b.include_left)
                                \/ (v = b.r /\ b.include_right)

(* The exceptions a band's call can end in. *)
Exceptions == {"TypeError", "ZeroDivisionError"}

(* The first band of a palette that accepts the value, as a set: empty     *)
(* when no band accepts it.                                                *)
FirstAccepting(bands, value) ==
    {i \in DOMAIN bands :
        /\ Contains(bands[i], value)
        /\ \A j \in 1..(i - 1) : ~Contains(bands[j], value)}

(* C15: Palette(value) returns the color of the first band, in             *)
(* construction order, that accepts the value; of two bins whose closed    *)
(* intervals overlap the first wins for every value in the overlap; and a  *)
(* CatchAll placed first hides every later band.                           *)
C15_FirstBandWins ==
    (last.op = "palette" /\ last.value \in Numbers)
        => LET bands == last.bands
               v == last.value
               closed(b) == b.kind = "ColorBin" /\ b.include_left /\ b.include_right
           IN  /\ \A i \in FirstAccepting(bands, v) :
                    bands[i].kind \in {"ColorBin", "CatchAll"}
                        => last.result = bands[i].color
               /\ ( /\ Len(bands) = 2
                    /\ closed(bands[1]) /\ closed(bands[2])
                    /\ bands[1].l <= v /\ v <= bands[1].r
                    /\ bands[2].l <= v /\ v <= bands[2].r )
                    => last.result = bands[1].color
               /\ (Len(bands) >= 1 /\ bands[1].kind = "CatchAll")
                    => last.result = bands[1].color

(* C16: Palette(value) never raises: it returns the color of the first     *)
(* accepting band (for Choices, the color mapped to the value), or the     *)
(* zero sentinel when no band accepts the value.                           *)
C16_PaletteNeverRaises ==
    last.op = "palette"
        => /\ last.result \notin Exceptions
           /\ FirstAccepting(last.bands, last.value) = {} => last.result = Zero
           /\ \A i \in FirstAccepting(last.bands, last.value) :
                last.bands[i].kind = "Choices" => last.result = last.bands[i].color

(* C17: LinearGradient(C1, C2, left, right) called at left returns C1 and  *)
(* called at right returns C2 (colors here are told apart exactly, which   *)
(* is coarser than one unit per channel).                                  *)
C17_GradientEndpoints ==
    (last.op = "gradient" /\ last.band.l < last.band.r)
        => /\ last.value = last.band.l => last.result = last.band.color
           /\ last.value = last.band.r => last.result = last.band.right_color

(* C18: Recode over PropertyAccess('f'), evaluated on the record {'f': k}, *)
(* returns the value mapped to k for every key k of its mapping, and the   *)
(* default for every other value of 'f'.                                   *)
C18_RecodeRoundTrips ==
    (last.op = "recode" /\ last.e.kind = "PA")
        => last.result = (IF last.data.f \in DOMAIN last.code
                          THEN last.code[last.data.f]
                          ELSE last.default)

(* C19: And stops at its first false clause and Or at its first true one:  *)
(* the deciding clause is the last one evaluated, so a later clause that   *)
(* would raise is never called and the result is the deciding value.       *)
C19_AndOrShortCircuit ==
    /\ last.op = "and"
         => \A i \in DOMAIN last.es :
              (last.es[i] = "False" /\ \A j \in 1..(i - 1) : last.es[j] = "True")
                => last.result = "False" /\ last.evaluated = i
    /\ last.op = "or"
         => \A i \in DOMAIN last.es :
              (last.es[i] = "True" /\ \A j \in 1..(i - 1) : last.es[j] = "False")
                => last.result = "True" /\ last.evaluated = i

(* An And whose first clause is false and whose second would raise was     *)
(* evaluated.                                                              *)
C19_Witness ==
    /\ last.op = "and"
    /\ Len(last.es) >= 2
    /\ last.es[1] = "False"
    /\ last.es[2] = "ValueError"
    /\ last.result = "False"

C21_LikeModes ==
    last.op = "like"
        => LET p == last.value
               v == last.v
               n == Len(p)
               leading == p[1] = "%"
               trailing == p[n] = "%"
           IN  /\ (leading /\ trailing /\ n >= 2)
                    => (last.result <=> IsIn(SubSeq(p, 2, n - 1), v))
               /\ (leading /\ ~trailing)
                    => (last.result <=> EndsWith(v, SubSeq(p, 2, n)))
               /\ (~leading /\ trailing)
                    => (last.result <=> StartsWith(v, SubSeq(p, 1, n - 1)))
               /\ (~leading /\ ~trailing)
                    => (last.result <=> v = p)

(* C22: evaluating a property accessor on a record returns the record's    *)
(* value for the field: an integer as a float, a hex-color-shaped string   *)
(* as a Color, every other value (float, other string, date, boolean,      *)
(* null) unchanged; a field absent from the record is a field-not-found    *)
(* error.                                                                  *)
C22_PropertyAccess ==
    last.op = "pa"
        => IF last.field \notin DOMAIN last.data THEN last.result = "KeyError"
           ELSE LET raw == last.data[last.field]
                IN  /\ raw.kind = "int" => last.result = "float"
                    /\ (raw.kind = "str" /\ raw.len \in {7, 9} /\ raw.hash /\ raw.hex)
                         => last.result = "Color"
                    /\ (raw.kind \in {"float", "date", "bool", "None"}
                        \/ (raw.kind = "str" /\ ~raw.hash))
                         => last.result = "unchanged"

(* The left-to-right fold of the operation over all the operands *)
RECURSIVE LeftFold(_, _, _, _)
LeftFold(operator, acc, rest, i) ==
    IF i > Len(rest) \/ ~IsNumber(acc) THEN acc
    ELSE LeftFold(operator, BinaryOp(operator, acc, rest[i]), rest, i + 1)

(* C23: an arithmetic node returns the result of applying its operation    *)
(* to its evaluated operands: Add(a, b) is a + b, and with further         *)
(* operands the left-to-right fold over all of them.                       *)
C23_ArithmeticReturnsFold ==
    last.op = "arith"
        => LET fold == LeftFold(last.operator,
                                BinaryOp(last.operator, last.exp1, last.exp2),
                                last.rest, 1)
           IN  IsNumber(fold) => last.result = fold

(* C24: a rule returns the conjunction of its clauses only when            *)
(* min_scale < pixel_size < max_scale, both strict; for any other pixel    *)
(* size, the two bounds included, it is inactive: it reports no match,     *)
(* evaluates no clause and raises no error.                                *)
C24_RuleScaleRange ==
    last.op = "rule"
        => LET es == last.clauses
           IN  IF last.min_scale < last.pxsize /\ last.pxsize < last.max_scale
               THEN /\ last.result = "True" <=> \A i \in 1..Len(es) : es[i] = "True"
                    /\ last.result \in ClauseOutcomes
                    /\ last.result # "True"
                         => /\ last.evaluated \in 1..Len(es)
                            /\ es[last.evaluated] = last.result
                            /\ \A i \in 1..(last.evaluated - 1) : es[i] = "True"
               ELSE last.result = "None" /\ last.evaluated = 0

(* A rule asked at exactly its min_scale, whose first clause would raise *)
C24_Witness ==
    /\ last.op = "rule"
    /\ last.pxsize = last.min_scale
    /\ last.pxsize < last.max_scale
    /\ Len(last.clauses) >= 1
    /\ last.clauses[1] = "ValueError"
    /\ last.result = "None"

(* C25: with pairs in descending threshold order, when Interpolate selects *)
(* a pair with a non-null threshold for a value v, that pair and the next  *)
(* pair bracket v: the next pair exists and the normalized position        *)
(* y = (v - threshold_i) / (threshold_next - threshold_i) is in [0, 1].    *)
C25_InterpolateBrackets ==
    (/\ last.op = "interpolate"
     /\ last.result.selected > 0
     /\ last.pairs[last.result.selected].threshold # NoneValue)
        => LET y == last.result.y
           IN  /\ last.result.selected < Len(last.pairs)
               /\ last.result.kind = "blend"
               /\ \/ y.den > 0 /\ 0 <= y.num /\ y.num <= y.den
                  \/ y.den < 0 /\ y.den <= y.num /\ y.num <= 0

(* C27: for every value v that the membership test of a LinearGradient     *)
(* with left_value < right_value accepts, whatever include_left and        *)
(* include_right, interp(v) = (v - left) / (right - left) is in [0, 1].    *)
C27_AcceptedInterpInUnitRange ==
    (/\ last.op = "contains"
     /\ last.band.kind = "LinearGradient"
     /\ last.band.l < last.band.r
     /\ last.value # NoneValue
     /\ last.member)
        => LET iv == Interp(last.band, last.value)
           IN  0 <= iv.num /\ iv.num <= iv.den

(* The cache entries without their access timestamps *)
Unstamped(S) == {[d EXCEPT !.used_time = 0] : d \in S}

(* C26: when a GetMap request does not set fresh and the cache holds an    *)
(* entry for the request's key, GetMap returns that entry's payload and    *)
(* calls neither the renderer (in process or deferred) nor cache_result:   *)
(* the request is served from the cache and no entry is written.           *)
C26_HitServedFromCache ==
    [][ ( /\ Completed("getmap")
          /\ ~last'.fresh
          /\ \E d \in coll : d.id = last'.docid )
          => /\ last'.path = "cache"
             /\ \E d \in coll : d.id = last'.docid /\ d.item = last'.result
             /\ Unstamped(coll') = Unstamped(coll) ]_vars

(* C28: when a GetMap request sets fresh, the response is not served from  *)
(* the cache: GetMap renders anew, and after a successful render the cache *)
(* holds, under the key the same request without fresh looks up, exactly   *)
(* one entry, whose payload is the new render.                             *)
C28_FreshRendersAndStores ==
    (last.op = "getmap" /\ last.fresh)
        => /\ last.path # "cache"
           /\ last.path \in {"render", "task"}
                => /\ Cardinality({d \in coll : d.id = last.docid}) = 1
                   /\ \A d \in coll : d.id = last.docid => d.item = last.result

(* C29: if rendering or image encoding fails during GetMap, the request    *)
(* ends in an error and the cache is left as it was apart from access      *)
(* timestamps: no entry is created, no payload overwritten.                *)
C29_FailedRenderLeavesCache ==
    [][ ( /\ Completed("getmap")
          /\ last'.path \in {"error", "silent"} )
          => /\ last'.result = "NoApplicableCode"
             /\ Unstamped(coll') = Unstamped(coll) ]_vars

(* C30: application namespaces are isolated for lookups. A get only        *)
(* returns the payload of an entry held under its own application and      *)
(* key, and an entry carries, for as long as it exists, the application,   *)
(* the key and the payload of the put that created it (every put stores a  *)
(* payload of its own): a get never returns a payload that was put under   *)
(* another application with the same key.                                  *)
C30_NamespacesIsolated ==
    [][ /\ (Completed("retrieve") /\ last'.path = "touch")
            => \E d \in docs : /\ d.application = last'.application
                               /\ d.cache_key = last'.cache_key
                               /\ d.item = last'.result
        /\ \A d \in docs' :
            \/ \E e \in docs : /\ e.application = d.application
                               /\ e.cache_key = d.cache_key
                               /\ e.item = d.item
            \/ /\ Completed("add")
               /\ d.application = last'.application
               /\ d.cache_key = last'.cache_key
               /\ d.item = last'.item ]_vars

(* A get returned a payload while another application held an entry under *)
(* the same key.                                                           *)
C30_Witness ==
    /\ last.op = "retrieve"
    /\ last.path = "touch"
    /\ \E d \in docs : /\ d.cache_key = last.cache_key
                       /\ d.application # last.application
                       /\ d.item # last.result

====
